---- MODULE Spec2Model ----
(***************************************************************************)
(* foldertree: the parsers (TreeParser) and the filesystem materializer    *)
(* (TreeGenerator) of foldertree/core.py, the latter modelled over an      *)
(* explicit filesystem.                                                    *)
(*                                                                         *)
(* Text is modelled as sequences of one-character strings, so that         *)
(* suffix tests, path joins and comment formatting are computed the way    *)
(* the code computes them.  A filesystem path is the sequence of its       *)
(* components below the filesystem root; <<>> is the root "/".             *)
(***************************************************************************)
EXTENDS Integers, Sequences, FiniteSets, TLC

VARIABLES
    dirs,           \* filesystem: the set of paths that are directories
    files,          \* filesystem: function from the paths of regular files to their content
    tree,           \* the TreeNode the caller passes to generate
    dry_run,        \* TreeGenerator.dry_run
    created_files,  \* TreeGenerator.created_files
    created_dirs,   \* TreeGenerator.created_dirs
    skipped_items,  \* TreeGenerator.skipped_items
    outcome,        \* how the last generate or parse call ended: "none", "returned" or the exception raised
    history,        \* history variable: one record per generate, parse or _has_extension call made so far, oldest first
    text,           \* TreeParser.parse's argument content (the text to parse), or _has_extension's filename
    hint,           \* TreeParser.parse's argument format_type
    parsed          \* the document yaml.safe_load returned (parse, line 337)

vars == <<dirs, files, tree, dry_run, created_files, created_dirs, skipped_items, outcome,
          history, text, hint, parsed>>

-----------------------------------------------------------------------------
(* Text helpers *)

\* Optional[str] = None (TreeNode.comment's default); distinct from every text
None == <<"None">>

\* Python truthiness of an Optional[str]: None and '' are falsy
Truthy(s) == s # None /\ s # <<>>

\* str.startswith / str.endswith
StartsWith(s, p) == Len(p) <= Len(s) /\ SubSeq(s, 1, Len(p)) = p
EndsWith(s, p) == Len(p) <= Len(s) /\ SubSeq(s, Len(s) - Len(p) + 1, Len(s)) = p

\* str.rfind('.') as a 1-based index, 0 when the name holds no '.'
RFindDot(s) ==
    LET hits == {i \in 1..Len(s) : s[i] = "."}
    IN IF hits = {} THEN 0 ELSE CHOOSE i \in hits : \A j \in hits : j <= i

\* pathlib's PurePath.suffix of a final component: the text from the last '.',
\* when that '.' is neither the first nor the last character; '' otherwise
Suffix(name) ==
    LET i == RFindDot(name)
    IN IF 1 < i /\ i < Len(name) THEN SubSeq(name, i, Len(name)) ELSE <<>>

-----------------------------------------------------------------------------
(* Paths *)

\* the components of a text split at '/', empty and '.' components dropped
\* (pathlib's parsing of a path segment); '..' is kept
RECURSIVE SplitFrom(_, _, _)
SplitFrom(s, i, cur) ==
    LET keep == IF cur = <<>> \/ cur = <<".">> THEN <<>> ELSE <<cur>>
    IN IF i > Len(s) THEN keep
       ELSE IF s[i] = "/" THEN keep \o SplitFrom(s, i + 1, <<>>)
       ELSE SplitFrom(s, i + 1, Append(cur, s[i]))

Parts(s) == SplitFrom(s, 1, <<>>)

\* pathlib's  path / name : an absolute name replaces the path
Join(path, name) ==
    IF Len(name) > 0 /\ name[1] = "/" THEN Parts(name) ELSE path \o Parts(name)

\* Path.parent (the root is its own parent)
Parent(path) == IF path = <<>> THEN <<>> ELSE SubSeq(path, 1, Len(path) - 1)

\* Path.name
Name(path) == IF path = <<>> THEN <<>> ELSE path[Len(path)]

\* str(path) of an absolute path: '/' then the components joined by '/'
RECURSIVE JoinSlash(_)
JoinSlash(path) ==
    IF path = <<>> THEN <<>>
    ELSE IF Len(path) = 1 THEN path[1]
    ELSE path[1] \o <<"/">> \o JoinSlash(Tail(path))

Str(path) == <<"/">> \o JoinSlash(path)

\* TreeGenerator.base_path = Path(base_path): the output directory /out
base_path == << <<"o", "u", "t">> >>

-----------------------------------------------------------------------------
(* TreeParser.comment_styles and the skip list *)

comment_styles ==
    (<<".", "p", "y">> :> <<"#">>) @@
    (<<".", "j", "s">> :> <<"/", "/">>) @@
    (<<".", "t", "s">> :> <<"/", "/">>) @@
    (<<".", "j", "a", "v", "a">> :> <<"/", "/">>) @@
    (<<".", "c", "p", "p">> :> <<"/", "/">>) @@
    (<<".", "c">> :> <<"/", "/">>) @@
    (<<".", "h">> :> <<"/", "/">>) @@
    (<<".", "h", "p", "p">> :> <<"/", "/">>) @@
    (<<".", "c", "s", "s">> :> <<"/", "*">>) @@
    (<<".", "h", "t", "m", "l">> :> <<"<", "!", "-", "-">>) @@
    (<<".", "x", "m", "l">> :> <<"<", "!", "-", "-">>) @@
    (<<".", "y", "m", "l">> :> <<"#">>) @@
    (<<".", "y", "a", "m", "l">> :> <<"#">>) @@
    (<<".", "s", "h">> :> <<"#">>) @@
    (<<".", "b", "a", "s", "h">> :> <<"#">>) @@
    (<<".", "z", "s", "h">> :> <<"#">>) @@
    (<<".", "f", "i", "s", "h">> :> <<"#">>) @@
    (<<".", "p", "s", "1">> :> <<"#">>) @@
    (<<".", "r", "b">> :> <<"#">>) @@
    (<<".", "g", "o">> :> <<"/", "/">>) @@
    (<<".", "r", "s">> :> <<"/", "/">>) @@
    (<<".", "p", "h", "p">> :> <<"/", "/">>) @@
    (<<".", "s", "q", "l">> :> <<"-", "-">>) @@
    (<<".", "r">> :> <<"#">>) @@
    (<<".", "m">> :> <<"%">>) @@
    (<<".", "t", "e", "x">> :> <<"%">>) @@
    (<<".", "l", "u", "a">> :> <<"-", "-">>) @@
    (<<".", "p", "l">> :> <<"#">>) @@
    (<<".", "s", "w", "i", "f", "t">> :> <<"/", "/">>) @@
    (<<".", "k", "t">> :> <<"/", "/">>) @@
    (<<".", "s", "c", "a", "l", "a">> :> <<"/", "/">>) @@
    (<<".", "c", "l", "j">> :> <<";">>) @@
    (<<".", "h", "s">> :> <<"-", "-">>) @@
    (<<".", "e", "l", "m">> :> <<"-", "-">>) @@
    (<<".", "d", "a", "r", "t">> :> <<"/", "/">>) @@
    (<<".", "v", "u", "e">> :> <<"/", "/">>) @@
    (<<".", "j", "s", "x">> :> <<"/", "/">>) @@
    (<<".", "t", "s", "x">> :> <<"/", "/">>)

skip_patterns ==
    <<
       <<"_", "_", "p", "y", "c", "a", "c", "h", "e", "_", "_">>,
       <<"*", ".", "p", "y", "c">>,
       <<".", "g", "i", "t">>,
       <<".", "D", "S", "_", "S", "t", "o", "r", "e">>,
       <<"T", "h", "u", "m", "b", "s", ".", "d", "b">>,
       <<"*", ".", "l", "o", "g">>,
       <<".", "p", "y", "t", "e", "s", "t", "_", "c", "a", "c", "h", "e">>,
       <<".", "v", "e", "n", "v">>,
       <<"v", "e", "n", "v">>,
       <<".", "e", "n", "v">>,
       <<"n", "o", "d", "e", "_", "m", "o", "d", "u", "l", "e", "s">>,
       <<".", "c", "o", "v", "e", "r", "a", "g", "e">>,
       <<"h", "t", "m", "l", "c", "o", "v">>,
       <<"*", ".", "e", "g", "g", "-", "i", "n", "f", "o">>,
       <<"b", "u", "i", "l", "d">>,
       <<"d", "i", "s", "t">>
    >>

\* _should_skip comparing names with the patterns literally: no glob matching
_should_skip_ExactOnly(name) ==
    \E k \in 1..Len(skip_patterns) : name = skip_patterns[k]

\* TreeGenerator._should_skip
_should_skip(name) ==
    \E k \in 1..Len(skip_patterns) :
        LET pattern == skip_patterns[k]
        IN \/ name = pattern
           \/ StartsWith(pattern, <<"*">>) /\ EndsWith(name, Tail(pattern))
           \/ EndsWith(pattern, <<"*">>) /\ StartsWith(name, SubSeq(pattern, 1, Len(pattern) - 1))

-----------------------------------------------------------------------------
(* The filesystem, as pathlib sees it.  The record st carries the generator  *)
(* object, the filesystem and the pending exception through one generate     *)
(* call: st.err is NoErr while no exception has been raised, and every       *)
(* statement after a raise is skipped.                                       *)

NoErr == "none"

Raise(st, e) == [st EXCEPT !.err = e]

\* Path.exists / Path.is_file / Path.is_dir
Exists(st, path) == path \in st.dirs \/ path \in DOMAIN st.files
IsFile(st, path) == path \in DOMAIN st.files
IsDir(st, path) == path \in st.dirs

\* the proper prefixes of a path and the path itself, the root excluded
Ancestors(path) == {SubSeq(path, 1, k) : k \in 1..Len(path)}

\* Path.mkdir(parents=True, exist_ok=True): every missing ancestor is created;
\* FileExistsError when the path is a regular file, NotADirectoryError when an
\* ancestor is one (nothing is created then)
Mkdir(st, path) ==
    IF st.err # NoErr THEN st
    ELSE IF IsFile(st, path) THEN Raise(st, "FileExistsError")
    ELSE IF \E a \in Ancestors(path) : IsFile(st, a) THEN Raise(st, "NotADirectoryError")
    ELSE [st EXCEPT !.dirs = @ \cup Ancestors(path)]

\* Path.touch(): an existing file or directory keeps its content (only its
\* times change); otherwise an empty file is created in the parent directory
Touch(st, path) ==
    IF st.err # NoErr THEN st
    ELSE IF Exists(st, path) THEN st
    ELSE IF IsDir(st, Parent(path)) THEN [st EXCEPT !.files = (path :> <<>>) @@ @]
    ELSE IF \E a \in Ancestors(path) : IsFile(st, a) THEN Raise(st, "NotADirectoryError")
    ELSE Raise(st, "FileNotFoundError")

\* Path.write_text(content): open(path, 'w') truncates and writes
WriteText(st, path, content) ==
    IF st.err # NoErr THEN st
    ELSE IF IsDir(st, path) THEN Raise(st, "IsADirectoryError")
    ELSE IF IsDir(st, Parent(path)) THEN [st EXCEPT !.files = (path :> content) @@ @]
    ELSE IF \E a \in Ancestors(path) : IsFile(st, a) THEN Raise(st, "NotADirectoryError")
    ELSE Raise(st, "FileNotFoundError")

\* Path.iterdir(): the entries directly inside a directory
Iterdir(st, directory) ==
    {p \in st.dirs \cup DOMAIN st.files : p # <<>> /\ Parent(p) = directory}

\* the filesystem part of st
Fs(st) == [dirs |-> st.dirs, files |-> st.files]

-----------------------------------------------------------------------------
(* TreeGenerator *)

init_py == <<"_", "_", "i", "n", "i", "t", "_", "_", ".", "p", "y">>
dot_py == <<".", "p", "y">>

\* _create_init_py without its exists() test: the marker is touched and reported anew
_create_init_py_Unchecked(st, directory) ==
    LET init_file == Join(directory, init_py)
        st1 == IF ~st.dry_run THEN Touch(st, init_file) ELSE st
    IN IF st1.err # NoErr THEN st1
       ELSE [st1 EXCEPT !.created_files = Append(@, Str(init_file))]

\* TreeGenerator._create_init_py
_create_init_py(st, directory) ==
    LET init_file == Join(directory, init_py)
    IN IF st.err # NoErr \/ Exists(st, init_file) THEN st
       ELSE LET st1 == IF ~st.dry_run THEN Touch(st, init_file) ELSE st
            IN IF st1.err # NoErr THEN st1
               ELSE [st1 EXCEPT !.created_files = Append(@, Str(init_file))]

\* TreeGenerator._should_create_init_py
_should_create_init_py(st, directory) ==
    IF ~st.dry_run /\ Exists(st, directory)
    THEN \E f \in Iterdir(st, directory) : IsFile(st, f) /\ Suffix(Name(f)) = dot_py
    ELSE FALSE

\* every style written as a line comment: the block styles are never closed
CommentLine_LineOnly(suffix, comment) ==
    (IF suffix \in DOMAIN comment_styles THEN comment_styles[suffix] ELSE <<"#">>)
        \o <<" ">> \o comment \o <<"\n">>

\* the line _create_file_with_comment writes for a comment, by the file's suffix
CommentLine(suffix, comment) ==
    LET comment_char == IF suffix \in DOMAIN comment_styles
                        THEN comment_styles[suffix] ELSE <<"#">>
    IN IF comment_char = <<"/", "*">>
       THEN <<"/", "*", " ">> \o comment \o <<" ", "*", "/", "\n">>
       ELSE IF comment_char = <<"<", "!", "-", "-">>
       THEN <<"<", "!", "-", "-", " ">> \o comment \o <<" ", "-", "-", ">", "\n">>
       ELSE comment_char \o <<" ">> \o comment \o <<"\n">>

\* TreeGenerator._create_file_with_comment
_create_file_with_comment(st, file_path, comment) ==
    LET st1 == IF ~st.dry_run
               THEN WriteText(Mkdir(st, Parent(file_path)), file_path,
                              CommentLine(Suffix(Name(file_path)), comment))
               ELSE st
    IN IF st1.err # NoErr THEN st1
       ELSE [st1 EXCEPT !.created_files = Append(@, Str(file_path))]

\* _create_directory that forgets the dry_run test
_create_directory_AlwaysMkdir(st, dir_path) ==
    LET st1 == Mkdir(st, dir_path)
    IN IF st1.err # NoErr THEN st1
       ELSE [st1 EXCEPT !.created_dirs = Append(@, Str(dir_path))]

\* _create_directory that catches the error of mkdir and goes on
_create_directory_Swallow(st, dir_path) ==
    LET st1 == IF ~st.dry_run THEN Mkdir(st, dir_path) ELSE st
    IN IF st1.err # NoErr THEN st
       ELSE [st1 EXCEPT !.created_dirs = Append(@, Str(dir_path))]

\* TreeGenerator._create_directory
_create_directory(st, dir_path) ==
    LET st1 == IF ~st.dry_run THEN Mkdir(st, dir_path) ELSE st
    IN IF st1.err # NoErr THEN st1
       ELSE [st1 EXCEPT !.created_dirs = Append(@, Str(dir_path))]

\* _create_file that reports only what it really created
_create_file_SilentDryRun(st, file_path) ==
    IF st.dry_run THEN st
    ELSE LET st1 == Touch(Mkdir(st, Parent(file_path)), file_path)
         IN IF st1.err # NoErr THEN st1
            ELSE [st1 EXCEPT !.created_files = Append(@, Str(file_path))]

\* _create_file that reports a file only when it did not exist before
_create_file_ReportNew(st, file_path) ==
    LET st1 == IF ~st.dry_run
               THEN Touch(Mkdir(st, Parent(file_path)), file_path)
               ELSE st
    IN IF st1.err # NoErr \/ Exists(st, file_path) THEN st1
       ELSE [st1 EXCEPT !.created_files = Append(@, Str(file_path))]

\* _create_file that opens the file for writing, truncating what is there
_create_file_Truncating(st, file_path) ==
    LET st1 == IF ~st.dry_run
               THEN WriteText(Mkdir(st, Parent(file_path)), file_path, <<>>)
               ELSE st
    IN IF st1.err # NoErr THEN st1
       ELSE [st1 EXCEPT !.created_files = Append(@, Str(file_path))]

\* TreeGenerator._create_file
_create_file(st, file_path) ==
    LET st1 == IF ~st.dry_run
               THEN Touch(Mkdir(st, Parent(file_path)), file_path)
               ELSE st
    IN IF st1.err # NoErr THEN st1
       ELSE [st1 EXCEPT !.created_files = Append(@, Str(file_path))]

\* history of one generate call: the generator's steps in order, each with the
\* filesystem before and after it, the report entries it appended and the
\* exception pending after it
Logged(pre, post, step, path, node) ==
    IF pre.err # NoErr THEN post
    ELSE [post EXCEPT !.log = Append(@,
            [step |-> step, path |-> path, node |-> node,
             before |-> Fs(pre), after |-> Fs(post),
             created_files |-> SubSeq(post.created_files, Len(pre.created_files) + 1,
                                      Len(post.created_files)),
             created_dirs |-> SubSeq(post.created_dirs, Len(pre.created_dirs) + 1,
                                     Len(post.created_dirs)),
             err |-> post.err])]

\* _generate_recursive without its package-marker step
PackageMarker_Never(st, child_path) == st

\* _generate_recursive, lines 474-476: the package-marker step of a directory
PackageMarker(st, child_path) ==
    IF st.err # NoErr THEN st
    ELSE IF _should_create_init_py(st, child_path)
    THEN _create_init_py(st, child_path)
    ELSE st

RECURSIVE _generate_recursive(_, _, _)

\* the body of _generate_recursive's loop for one child
GenerateChild(st, child, current_path) ==
    IF st.err # NoErr THEN st
    ELSE IF _should_skip(child.name)
    THEN [st EXCEPT !.skipped_items = Append(@, child.name)]
    ELSE LET child_path == Join(current_path, child.name)
         IN IF child.is_directory
            THEN LET st1 == Logged(st, _create_directory(st, child_path),
                                   "_create_directory", child_path, child)
                     st2 == _generate_recursive(st1, child.children, child_path)
                 IN Logged(st2, PackageMarker(st2, child_path),
                           "package_marker", child_path, child)
            ELSE IF Truthy(child.comment)
            THEN Logged(st, _create_file_with_comment(st, child_path, child.comment),
                        "_create_file_with_comment", child_path, child)
            ELSE Logged(st, _create_file(st, child_path),
                        "_create_file", child_path, child)

\* TreeGenerator._generate_recursive over node.children, in order
_generate_recursive(st, children, current_path) ==
    IF children = <<>> THEN st
    ELSE _generate_recursive(GenerateChild(st, Head(children), current_path),
                             Tail(children), current_path)

\* generate without the reset of the three report lists
generate_NoReset(st, root) ==
    LET st0 == [st EXCEPT !.err = NoErr, !.log = <<>>]
        st1 == IF ~st0.dry_run THEN Mkdir(st0, base_path) ELSE st0
    IN _generate_recursive(st1, root.children, base_path)

\* TreeGenerator.generate: the generator and filesystem after the call
generate(st, root) ==
    LET st0 == [st EXCEPT !.created_files = <<>>, !.created_dirs = <<>>,
                          !.skipped_items = <<>>, !.err = NoErr, !.log = <<>>]
        st1 == IF ~st0.dry_run THEN Mkdir(st0, base_path) ELSE st0
    IN _generate_recursive(st1, root.children, base_path)

-----------------------------------------------------------------------------
(* TreeParser: text operations.  A character that is not ASCII is the      *)
(* one-element text holding its code point's name.                         *)

branch == "u251c"      \* the box-drawing glyph U+251C (tee)
corner == "u2514"      \* the box-drawing glyph U+2514 (elbow)
pipe == "u2502"        \* the box-drawing glyph U+2502 (vertical bar)
dash == "u2500"        \* the box-drawing glyph U+2500 (horizontal bar)
ellipsis == "u2026"    \* the horizontal ellipsis U+2026

\* the characters str.strip() removes and the regex class \s matches
Whitespace == {" ", "\t", "\n"}

\* the regex class [│├└─\s]
TreeSymbolClass == {pipe, branch, corner, dash} \cup Whitespace

Min(S) == CHOOSE i \in S : \A j \in S : i <= j
Max(S) == CHOOSE i \in S : \A j \in S : j <= i

\* str.lstrip(chars), str.rstrip(chars), str.strip()
LStripIn(s, chars) ==
    LET keep == {i \in 1..Len(s) : s[i] \notin chars}
    IN IF keep = {} THEN <<>> ELSE SubSeq(s, Min(keep), Len(s))

RStripIn(s, chars) ==
    LET keep == {i \in 1..Len(s) : s[i] \notin chars}
    IN IF keep = {} THEN <<>> ELSE SubSeq(s, 1, Max(keep))

Strip(s) == RStripIn(LStripIn(s, Whitespace), Whitespace)

\* sub in s
Contains(s, c) == \E i \in 1..Len(s) : s[i] = c

\* str.find(sub) as a 1-based index, 0 when sub does not occur
Find(s, sub) ==
    LET hits == {i \in 1..(Len(s) - Len(sub) + 1) : SubSeq(s, i, i + Len(sub) - 1) = sub}
    IN IF hits = {} THEN 0 ELSE Min(hits)

\* str.replace(old, new, 1): the first occurrence only ('' occurs at the start)
ReplaceFirst(s, sub, repl) ==
    LET i == Find(s, sub)
    IN IF i = 0 THEN s
       ELSE SubSeq(s, 1, i - 1) \o repl \o SubSeq(s, i + Len(sub), Len(s))

\* str.split(sep) for a one-character separator: empty pieces are kept
RECURSIVE SplitAt(_, _, _, _)
SplitAt(s, sep, i, cur) ==
    IF i > Len(s) THEN <<cur>>
    ELSE IF s[i] = sep THEN <<cur>> \o SplitAt(s, sep, i + 1, <<>>)
    ELSE SplitAt(s, sep, i + 1, Append(cur, s[i]))

Split(s, sep) == SplitAt(s, sep, 1, <<>>)

\* str.splitlines(): no line for the empty text, none after a final newline
SplitLines(s) ==
    LET pieces == Split(s, "\n")
    IN IF s = <<>> THEN <<>>
       ELSE IF pieces[Len(pieces)] = <<>> THEN SubSeq(pieces, 1, Len(pieces) - 1)
       ELSE pieces

\* sep.join(lines)
RECURSIVE JoinLines(_, _)
JoinLines(lines, sep) ==
    IF lines = <<>> THEN <<>>
    ELSE IF Len(lines) = 1 THEN lines[1]
    ELSE lines[1] \o <<sep>> \o JoinLines(Tail(lines), sep)

\* s.split('#', 1): the text before the first '#' and the text after it
BeforeHash(s) ==
    LET i == Find(s, <<"#">>) IN IF i = 0 THEN s ELSE SubSeq(s, 1, i - 1)

AfterHash(s) ==
    LET i == Find(s, <<"#">>) IN SubSeq(s, i + 1, Len(s))

\* re.match(r'^([│├└─\s]*)', line).group(1): the longest leading run of the class
TreeSymbols(line) ==
    LET out == {i \in 1..Len(line) : line[i] \notin TreeSymbolClass}
    IN IF out = {} THEN line ELSE SubSeq(line, 1, Min(out) - 1)

\* re.sub(r'^[│├└─\s]*', '', line)
AfterTreeSymbols(line) == SubSeq(line, Len(TreeSymbols(line)) + 1, Len(line))

\* re.match(r'^[│├└─\s]*\S', line): some non-whitespace character is preceded
\* by characters of the class only
IsContentLine(line) ==
    \E k \in 1..Len(line) :
        /\ line[k] \notin Whitespace
        /\ \A j \in 1..(k - 1) : line[j] \in TreeSymbolClass

-----------------------------------------------------------------------------
(* TreeParser: the parent stack both line-oriented parsers keep.  A parser  *)
(* run is modelled by the list of its node-producing lines ("events"), each *)
(* with the node's fields, the index of the parent's event (0 for the root) *)
(* and the stack after the push: entries <<event index, depth>>, the root   *)
(* entry being <<0, -1>>.                                                   *)

\* stack = [(root, -1)]
RootStack == << <<0, -1>> >>

\* the pop loop with > in place of >=
RECURSIVE PopStack_Strict(_, _)
PopStack_Strict(stack, indent_level) ==
    IF Len(stack) > 1 /\ stack[Len(stack)][2] > indent_level
    THEN PopStack_Strict(SubSeq(stack, 1, Len(stack) - 1), indent_level)
    ELSE stack

\* while len(stack) > 1 and stack[-1][1] >= indent_level: stack.pop()
RECURSIVE PopStack(_, _)
PopStack(stack, indent_level) ==
    IF Len(stack) > 1 /\ stack[Len(stack)][2] >= indent_level
    THEN PopStack(SubSeq(stack, 1, Len(stack) - 1), indent_level)
    ELSE stack

\* node = TreeNode(name, is_directory, comment); parent.children.append(node);
\* stack.append((node, indent_level))
Attach(st, i, line, indent_level, name, is_directory, comment) ==
    LET stack1 == PopStack(st.stack, indent_level)
        k == Len(st.events) + 1
        stack2 == Append(stack1, <<k, indent_level>>)
    IN [events |-> Append(st.events,
                     [line_no |-> i, line |-> line, indent_level |-> indent_level,
                      name |-> name, is_directory |-> is_directory,
                      comment |-> comment, parent |-> stack1[Len(stack1)][1],
                      stack |-> stack2]),
        stack |-> stack2]

\* the tree the appends have built: the children of a node are the events
\* attached to it, in line order
RECURSIVE NodeAt(_, _)
RECURSIVE ChildrenOf(_, _, _)
ChildrenOf(events, p, k) ==
    IF k > Len(events) THEN <<>>
    ELSE (IF events[k].parent = p THEN <<NodeAt(events, k)>> ELSE <<>>)
         \o ChildrenOf(events, p, k + 1)

NodeAt(events, k) ==
    [name |-> events[k].name, is_directory |-> events[k].is_directory,
     comment |-> events[k].comment, children |-> ChildrenOf(events, k, k + 1)]

\* root = TreeNode(".", True) with what was attached below it
BuildTree(events) ==
    [name |-> <<".">>, is_directory |-> TRUE, comment |-> None,
     children |-> ChildrenOf(events, 0, 1)]

-----------------------------------------------------------------------------
(* TreeParser: the tree-drawing notation *)

\* the while loop of _calculate_tree_indent_level from index i
RECURSIVE TreeIndentFrom(_, _)
TreeIndentFrom(tree_symbols, i) ==
    IF i > Len(tree_symbols) THEN 0
    ELSE IF tree_symbols[i] \in {branch, corner}
    THEN 1 + TreeIndentFrom(tree_symbols, i + 4)
    ELSE IF tree_symbols[i] = pipe
    THEN 1 + TreeIndentFrom(tree_symbols, i + 4)
    ELSE TreeIndentFrom(tree_symbols, i + 1)

_calculate_tree_indent_level(line) == TreeIndentFrom(TreeSymbols(line), 1)

\* TreeParser._clean_tree_line: the cleaned text and the comment (None without '#')
_clean_tree_line(line) ==
    LET clean_line == Strip(AfterTreeSymbols(line))
    IN IF Contains(clean_line, "#")
       THEN [clean_line |-> Strip(BeforeHash(clean_line)),
             comment |-> Strip(AfterHash(clean_line))]
       ELSE [clean_line |-> clean_line, comment |-> None]

\* the index of the first line after line i that the content-line regex
\* matches, 0 when there is none
NextContentLine(lines, i) ==
    LET later == {j \in (i + 1)..Len(lines) : IsContentLine(lines[j])}
    IN IF later = {} THEN 0 ELSE Min(later)

\* _inject_slashes_for_tree_format's depth: the glyphs in the leading run
GlyphCount(line) ==
    LET tree_symbols == TreeSymbols(line)
    IN Cardinality({i \in 1..Len(tree_symbols) : tree_symbols[i] \in {branch, corner, pipe}})

\* the body of _inject_slashes_for_tree_format's loop for line i
InjectTreeLine(lines, i) ==
    LET line == lines[i]
        name == Strip(BeforeHash(Strip(AfterTreeSymbols(line))))
        j == NextContentLine(lines, i)
        is_directory ==
            \/ ~Contains(name, ".") /\ ~EndsWith(name, <<"/">>)
            \/ j # 0 /\ GlyphCount(lines[j]) > GlyphCount(line)
    IN IF ~IsContentLine(line) THEN line
       ELSE IF is_directory /\ ~EndsWith(name, <<"/">>)
       THEN ReplaceFirst(line, name, name \o <<"/">>)
       ELSE line

\* TreeParser._inject_slashes_for_tree_format
_inject_slashes_for_tree_format(content) ==
    LET lines == SplitLines(Strip(content))
    IN JoinLines([i \in 1..Len(lines) |-> InjectTreeLine(lines, i)], "\n")

\* parse_tree_format, lines 187-196: the peek at the next content line
TreeLineIsDirectory(lines, i) ==
    LET j == NextContentLine(lines, i)
    IN j # 0 /\ _calculate_tree_indent_level(lines[j])
                  > _calculate_tree_indent_level(lines[i])

\* parse_tree_format, lines 176-185: the lines that produce no node
TreeLineDropped(line) ==
    \/ Strip(line) = <<>>
    \/ ~IsContentLine(line)
    \/ _clean_tree_line(line).clean_line \in {<<ellipsis>>, <<".", ".", ".">>}
    \/ _clean_tree_line(line).clean_line = <<>>

\* the body of parse_tree_format's loop for line i
TreeLineStep(st, lines, i) ==
    IF TreeLineDropped(lines[i]) THEN st
    ELSE LET cl == _clean_tree_line(lines[i])
         IN Attach(st, i, lines[i], _calculate_tree_indent_level(lines[i]),
                   RStripIn(cl.clean_line, {"/", "\\"}),
                   TreeLineIsDirectory(lines, i), cl.comment)

RECURSIVE TreeLinesFrom(_, _, _)
TreeLinesFrom(st, lines, i) ==
    IF i > Len(lines) THEN st
    ELSE TreeLinesFrom(TreeLineStep(st, lines, i), lines, i + 1)

\* parse_tree_format, lines 164-170: the lines the loop runs over
TreeFormatLines(content) ==
    LET lines == Split(Strip(_inject_slashes_for_tree_format(content)), "\n")
    IN IF Strip(lines[1]) = <<".">> THEN Tail(lines) ELSE lines

\* TreeParser.parse_tree_format: the tree returned and the node-producing lines
parse_tree_format(content) ==
    LET st == TreeLinesFrom([events |-> <<>>, stack |-> RootStack],
                            TreeFormatLines(content), 1)
    IN [tree |-> BuildTree(st.events), log |-> st.events, err |-> NoErr]

-----------------------------------------------------------------------------
(* TreeParser: the indented notation *)

\* _calculate_simple_indent_level with a two-space indent unit
_calculate_simple_indent_level_Unit2(line) ==
    (Len(line) - Len(LStripIn(line, {" "}))) \div 2

\* TreeParser._calculate_simple_indent_level: leading spaces // 4
_calculate_simple_indent_level(line) ==
    (Len(line) - Len(LStripIn(line, {" "}))) \div 4

\* the substitution of _inject_slashes_for_simple_tree on one line: the
\* pattern ^([ \t]*)([^\s./][^\n]*)$ matches a line whose first character
\* after the leading blanks and tabs is neither whitespace, '.' nor '/'; the
\* second group, "name", is the rest of the line
InjectSimpleLine(line) ==
    LET name == LStripIn(line, {" ", "\t"})
    IN IF name = <<>> \/ name[1] \in Whitespace \cup {".", "/"} THEN line
       ELSE IF Contains(name, ".") \/ EndsWith(name, <<"/">>) THEN line
       ELSE line \o <<"/">>

\* TreeParser._inject_slashes_for_simple_tree
_inject_slashes_for_simple_tree(content) ==
    LET lines == Split(content, "\n")
    IN JoinLines([i \in 1..Len(lines) |-> InjectSimpleLine(lines[i])], "\n")

\* TreeParser._has_extension
_has_extension(filename) ==
    IF StartsWith(filename, <<".">>)
       /\ Cardinality({i \in 1..Len(filename) : filename[i] = "."}) = 1
    THEN TRUE
    ELSE Contains(filename, ".") /\ ~StartsWith(filename, <<".">>)

\* parse_simple_format, lines 280-287: the cleaned text and the comment
CleanSimpleLine(line) ==
    LET clean_line == Strip(line)
    IN IF Contains(clean_line, "#")
       THEN [clean_line |-> Strip(BeforeHash(clean_line)),
             comment |-> Strip(AfterHash(clean_line))]
       ELSE [clean_line |-> clean_line, comment |-> None]

\* the body of parse_simple_format's loop for line i
SimpleLineStep(st, lines, i) ==
    LET cl == CleanSimpleLine(lines[i])
    IN IF Strip(lines[i]) = <<>> THEN st
       ELSE IF cl.clean_line = <<>> THEN st
       ELSE Attach(st, i, lines[i], _calculate_simple_indent_level(lines[i]),
                   RStripIn(cl.clean_line, {"/"}),
                   EndsWith(cl.clean_line, <<"/">>) \/ ~_has_extension(cl.clean_line),
                   cl.comment)

RECURSIVE SimpleLinesFrom(_, _, _)
SimpleLinesFrom(st, lines, i) ==
    IF i > Len(lines) THEN st
    ELSE SimpleLinesFrom(SimpleLineStep(st, lines, i), lines, i + 1)

\* parse_simple_format, lines 266-268: the lines without a leading root line
RawLines(content) ==
    LET raw_lines == SplitLines(content)
    IN IF raw_lines # <<>> /\ Strip(raw_lines[1]) = <<".">>
       THEN Tail(raw_lines) ELSE raw_lines

\* parse_simple_format, lines 269-270: the lines the loop runs over
SimpleFormatLines(content) ==
    SplitLines(_inject_slashes_for_simple_tree(JoinLines(RawLines(content), "\n")))

\* TreeParser.parse_simple_format: the tree returned and the node-producing lines
parse_simple_format(content) ==
    LET st == SimpleLinesFrom([events |-> <<>>, stack |-> RootStack],
                              SimpleFormatLines(content), 1)
    IN [tree |-> BuildTree(st.events), log |-> st.events, err |-> NoErr]

-----------------------------------------------------------------------------
(* TreeParser: the structured-data notation.  A document, as                *)
(* yaml.safe_load returns it, is a record [t, s, items]: t is the Python    *)
(* type ("dict", "list", "str", "int", "bool", "none"), s the text of a     *)
(* scalar, items the entries of a list or the <<key, value>> pairs of a     *)
(* dict in insertion order.                                                 *)

YStr(s) == [t |-> "str", s |-> s, items |-> <<>>]
YInt(s) == [t |-> "int", s |-> s, items |-> <<>>]
YBool(s) == [t |-> "bool", s |-> s, items |-> <<>>]
YNone == [t |-> "none", s |-> <<"N", "o", "n", "e">>, items |-> <<>>]
YList(items) == [t |-> "list", s |-> <<>>, items |-> items]
YDict(items) == [t |-> "dict", s |-> <<>>, items |-> items]

key_name == <<"n", "a", "m", "e">>
key_children == <<"c", "h", "i", "l", "d", "r", "e", "n">>

\* key in node
HasKey(node, key) == node.t = "dict" /\ \E i \in 1..Len(node.items) : node.items[i][1] = key

\* node[key]
Get(node, key) ==
    node.items[CHOOSE i \in 1..Len(node.items) : node.items[i][1] = key][2]

\* the concatenation of a sequence of sequences
RECURSIVE Concat(_)
Concat(seqs) == IF seqs = <<>> THEN <<>> ELSE Head(seqs) \o Concat(Tail(seqs))

\* str(item) of a document value: a scalar's text, a container's repr
RECURSIVE PyRepr(_)
PyRepr(v) ==
    IF v.t = "str" THEN <<"'">> \o v.s \o <<"'">>
    ELSE IF v.t = "list"
    THEN <<"[">> \o Concat([i \in 1..Len(v.items) |-> PyRepr(v.items[i]) \o
                              (IF i < Len(v.items) THEN <<",", " ">> ELSE <<>>)])
         \o <<"]">>
    ELSE IF v.t = "dict"
    THEN <<"{">> \o Concat([i \in 1..Len(v.items) |->
                              <<"'">> \o v.items[i][1] \o <<"'", ":", " ">>
                              \o PyRepr(v.items[i][2])
                              \o (IF i < Len(v.items) THEN <<",", " ">> ELSE <<>>)])
         \o <<"}">>
    ELSE v.s

PyStr(v) == IF v.t = "str" THEN v.s ELSE PyRepr(v)

\* node.get("name", name) as TreeNode.name: the text of the value, None for a null
NodeName(node) ==
    IF Get(node, key_name).t = "none" THEN None ELSE PyStr(Get(node, key_name))

\* node.get("children", []) as the for loop iterates it: the entries of a
\* list, the keys of a dict, the characters of a text
ChildEntries(node) ==
    IF ~HasKey(node, key_children) THEN <<>>
    ELSE LET c == Get(node, key_children)
         IN IF c.t = "list" THEN c.items
            ELSE IF c.t = "dict" THEN [i \in 1..Len(c.items) |-> YStr(c.items[i][1])]
            ELSE IF c.t = "str" THEN [i \in 1..Len(c.s) |-> YStr(<<c.s[i]>>)]
            ELSE <<>>

RECURSIVE _parse_yaml(_, _)

\* _parse_yaml with the serialized-node branch making a node without children a file
_parse_yaml_LeafIsFile(node, name) ==
    IF HasKey(node, key_name)
    THEN [name |-> NodeName(node),
          is_directory |-> ChildEntries(node) # <<>>, comment |-> None,
          children |-> [i \in 1..Len(ChildEntries(node)) |->
                           _parse_yaml(ChildEntries(node)[i], <<".">>)]]
    ELSE [name |-> name, is_directory |-> TRUE, comment |-> None,
          children |->
             IF node.t = "dict"
             THEN [i \in 1..Len(node.items) |->
                      _parse_yaml(node.items[i][2], node.items[i][1])]
             ELSE IF node.t = "str"
             THEN << [name |-> node.s, is_directory |-> FALSE,
                      comment |-> None, children |-> <<>>] >>
             ELSE <<>>]

\* TreeParser._parse_yaml
_parse_yaml(node, name) ==
    IF HasKey(node, key_name)
    THEN [name |-> NodeName(node), is_directory |-> TRUE, comment |-> None,
          children |-> [i \in 1..Len(ChildEntries(node)) |->
                           _parse_yaml(ChildEntries(node)[i], <<".">>)]]
    ELSE [name |-> name, is_directory |-> TRUE, comment |-> None,
          children |->
             IF node.t = "dict"
             THEN [i \in 1..Len(node.items) |->
                      _parse_yaml(node.items[i][2], node.items[i][1])]
             ELSE IF node.t = "list"
             THEN Concat([i \in 1..Len(node.items) |->
                      IF node.items[i].t = "dict"
                      THEN [j \in 1..Len(node.items[i].items) |->
                               _parse_yaml(node.items[i].items[j][2],
                                           node.items[i].items[j][1])]
                      ELSE << [name |-> PyStr(node.items[i]), is_directory |-> FALSE,
                               comment |-> None, children |-> <<>>] >>])
             ELSE IF node.t = "str"
             THEN << [name |-> node.s, is_directory |-> FALSE,
                      comment |-> None, children |-> <<>>] >>
             ELSE <<>>]

\* _parse_yaml raises TypeError: some serialized node's "children" is a value
\* the for loop cannot iterate
RECURSIVE YamlRaises(_)
YamlRaises(node) ==
    IF HasKey(node, key_name)
    THEN \/ HasKey(node, key_children)
            /\ Get(node, key_children).t \in {"none", "int", "bool"}
         \/ \E i \in 1..Len(ChildEntries(node)) : YamlRaises(ChildEntries(node)[i])
    ELSE IF node.t = "dict"
    THEN \E i \in 1..Len(node.items) : YamlRaises(node.items[i][2])
    ELSE IF node.t = "list"
    THEN \E i \in 1..Len(node.items) :
            /\ node.items[i].t = "dict"
            /\ \E j \in 1..Len(node.items[i].items) : YamlRaises(node.items[i].items[j][2])
    ELSE FALSE

\* TreeNode.to_dict
RECURSIVE to_dict(_)
to_dict(node) ==
    YDict(<< <<key_name, YStr(node.name)>>,
             <<<<"i", "s", "_", "d", "i", "r", "e", "c", "t", "o", "r", "y">>,
               YBool(IF node.is_directory THEN <<"T", "r", "u", "e">>
                     ELSE <<"F", "a", "l", "s", "e">>)>>,
             <<<<"c", "o", "m", "m", "e", "n", "t">>,
               IF node.comment = None THEN YNone ELSE YStr(node.comment)>>,
             <<key_children,
               YList([i \in 1..Len(node.children) |-> to_dict(node.children[i])])>> >>)

-----------------------------------------------------------------------------
(* TreeParser.parse: format selection and dispatch *)

\* yaml.safe_load on the one-line documents the format selection is run on;
\* blank space around a one-line document does not change what it loads to
YamlDocuments ==
    (<<"-", " ", "a", ".", "p", "y">> :> YList(<<YStr(<<"a", ".", "p", "y">>)>>)) @@
    (<<"{", "}">> :> YDict(<<>>)) @@
    (<<"[", "]">> :> YList(<<>>)) @@
    (<<"n", "a", "m", "e", ":", " ", ".">> :> YDict(<< <<key_name, YStr(<<".">>)>> >>)) @@
    (<<"s", "t", "r", "u", "c", "t", "u", "r", "e", ":">> :>
        YDict(<< <<<<"s", "t", "r", "u", "c", "t", "u", "r", "e">>, YNone>> >>)) @@
    (<<"d", "o", "c", "s", ":", " ", "r", "e", "a", "d", "m", "e", ".", "m", "d">> :>
        YDict(<< <<<<"d", "o", "c", "s">>, YStr(<<"r", "e", "a", "d", "m", "e", ".", "m", "d">>)>> >>))

safe_load(content) == YamlDocuments[Strip(content)]

\* no tree: the call raised, or has not been made
NoTree == [name |-> None, is_directory |-> FALSE, comment |-> None, children |-> <<>>]

\* parse, lines 324-331: the format chosen for format_type 'auto'
DetectFormat(stripped) ==
    LET lines == Split(stripped, "\n")
    IN IF \E i \in 1..Len(lines) :
             \E g \in {branch, corner, pipe} : StartsWith(Strip(lines[i]), <<g>>)
       THEN "tree"
       ELSE IF \E p \in {<<"-">>, <<"{">>, <<"[">>, <<"n", "a", "m", "e", ":">>,
                         <<"s", "t", "r", "u", "c", "t", "u", "r", "e", ":">>} :
                  StartsWith(stripped, p)
       THEN "yaml"
       ELSE "simple"

\* the result of one parser: the tree, the node-producing lines, the exception
\* raised and the parser that ran
Ran(r, chosen, document) ==
    [tree |-> r.tree, log |-> r.log, err |-> r.err, ran |-> chosen, parsed |-> document]

\* parse, lines 344-372 as called at line 338
ParseDocument(document) ==
    IF YamlRaises(document)
    THEN [tree |-> NoTree, log |-> <<>>, err |-> "TypeError"]
    ELSE [tree |-> _parse_yaml(document, <<".">>), log |-> <<>>, err |-> NoErr]

\* parse with an unknown format_type read as the indented notation
parse_FallbackSimple(content, format_type) ==
    LET chosen == IF format_type = "auto" THEN DetectFormat(Strip(content)) ELSE format_type
    IN IF chosen = "tree" THEN Ran(parse_tree_format(content), "tree", YNone)
       ELSE IF chosen = "yaml"
       THEN Ran(ParseDocument(safe_load(content)), "yaml", safe_load(content))
       ELSE Ran(parse_simple_format(content), "simple", YNone)

\* TreeParser.parse
parse(content, format_type) ==
    LET chosen == IF format_type = "auto" THEN DetectFormat(Strip(content)) ELSE format_type
    IN IF chosen = "tree" THEN Ran(parse_tree_format(content), "tree", YNone)
       ELSE IF chosen = "yaml"
       THEN Ran(ParseDocument(safe_load(content)), "yaml", safe_load(content))
       ELSE IF chosen = "simple" THEN Ran(parse_simple_format(content), "simple", YNone)
       ELSE [tree |-> NoTree, log |-> <<>>, err |-> "ValueError", ran |-> "none",
             parsed |-> YNone]

-----------------------------------------------------------------------------
(* Inputs: the trees a caller builds and the filesystems it starts from *)

\* TreeNode(name, is_directory, comment, children)
TreeNode(name, is_directory, comment, children) ==
    [name |-> name, is_directory |-> is_directory, comment |-> comment,
     children |-> children]

api == <<"a", "p", "i">>
pycache == <<"_", "_", "p", "y", "c", "a", "c", "h", "e", "_", "_">>
routes_py == <<"r", "o", "u", "t", "e", "s", ".", "p", "y">>
main_py == <<"m", "a", "i", "n", ".", "p", "y">>
debug_log == <<"d", "e", "b", "u", "g", ".", "l", "o", "g">>
api_b_py == <<"a", "p", "i", "/", "b", ".", "p", "y">>
styles_css == <<"s", "t", "y", "l", "e", "s", ".", "c", "s", "s">>
index_html == <<"i", "n", "d", "e", "x", ".", "h", "t", "m", "l">>
config_xml == <<"c", "o", "n", "f", "i", "g", ".", "x", "m", "l">>
test_js == <<"t", "e", "s", "t", ".", "j", "s">>
query_sql == <<"q", "u", "e", "r", "y", ".", "s", "q", "l">>
file_xyz == <<"f", "i", "l", "e", ".", "x", "y", "z">>
Makefile == <<"M", "a", "k", "e", "f", "i", "l", "e">>
Entry == <<"E", "n", "t", "r", "y">>
old == <<"o", "l", "d">>

\* the largest number of nodes below the root of a tree
MaxNodes == 3

\* the largest number of generate calls in a behaviour
MaxCalls == 2

DirNames == {api}
FileLabels == {<<routes_py, None>>, <<main_py, None>>, <<main_py, Entry>>,
               <<api_b_py, None>>}

\* for the skip policy: names the policy matches, as directory and as file
SkipDirNames == {api, pycache}
SkipFileLabels == {<<main_py, None>>, <<debug_log, None>>}

\* the child lists of exactly n nodes in all, over directory names D and file
\* labels F: file nodes are leaves, directory nodes hold child lists
RECURSIVE ChildLists(_, _, _)
NodesOfSize(k, D, F) ==
    (IF k = 1 THEN {TreeNode(l[1], FALSE, l[2], <<>>) : l \in F} ELSE {})
    \cup {TreeNode(d, TRUE, None, c) : d \in D, c \in ChildLists(k - 1, D, F)}
ChildLists(n, D, F) ==
    IF n = 0 THEN {<<>>}
    ELSE UNION {{<<t>> \o rest : t \in NodesOfSize(k, D, F), rest \in ChildLists(n - k, D, F)}
                : k \in 1..n}

\* the root "." over every child list of at most MaxNodes nodes
TreesOver(D, F) ==
    {TreeNode(<<".">>, TRUE, None, c) : c \in UNION {ChildLists(n, D, F) : n \in 0..MaxNodes}}
Trees == TreesOver(DirNames, FileLabels)
SkipTrees == TreesOver(SkipDirNames, SkipFileLabels)

\* for the comment headers: the root over one file node, its name from every
\* comment style and its comment absent, empty or a text
CommentNames == {styles_css, index_html, config_xml, main_py, test_js, query_sql,
                 file_xyz, Makefile, debug_log}
CommentTrees ==
    {TreeNode(<<".">>, TRUE, None, <<TreeNode(n, FALSE, c, <<>>)>>) :
        n \in CommentNames, c \in {None, <<>>, Entry}}

NoFiles == [p \in {} |-> <<>>]
out_api == Join(base_path, api)

\* the output directory does not exist yet
FsNone == [dirs |-> {<<>>}, files |-> NoFiles]
\* the output directory exists and is empty
FsEmpty == [dirs |-> {<<>>, base_path}, files |-> NoFiles]
\* an earlier project: a package api with its marker, and a main.py, all with content
FsPackage == [dirs |-> {<<>>, base_path, out_api},
              files |-> (Join(out_api, init_py) :> old) @@ (Join(out_api, routes_py) :> old)
                        @@ (Join(base_path, main_py) :> old)]
\* a directory api holding a source file and no marker
FsStale == [dirs |-> {<<>>, base_path, out_api},
            files |-> (Join(out_api, routes_py) :> old)]
\* api is a regular file and main.py a directory
FsClash == [dirs |-> {<<>>, base_path, Join(base_path, main_py)},
            files |-> (out_api :> old)]

InitialFilesystems == {FsNone, FsEmpty, FsPackage, FsStale, FsClash}

-----------------------------------------------------------------------------
(* The state machine *)

\* TreeGenerator.__init__'s fields over the current filesystem
Self == [dirs |-> dirs, files |-> files, dry_run |-> dry_run,
         created_files |-> created_files, created_dirs |-> created_dirs,
         skipped_items |-> skipped_items, err |-> NoErr, log |-> <<>>]

InitWith(trees) ==
    /\ tree \in trees
    /\ \E fs \in InitialFilesystems : dirs = fs.dirs /\ files = fs.files
    /\ dry_run \in BOOLEAN
    /\ created_files = <<>>
    /\ created_dirs = <<>>
    /\ skipped_items = <<>>
    /\ outcome = "none"
    /\ history = <<>>
    /\ text = <<>>
    /\ hint = "auto"
    /\ parsed = YNone

Init == InitWith(Trees)

InitComment == InitWith(CommentTrees)
InitSkip == InitWith(SkipTrees)

\* TreeGenerator(base_path, dry_run): the next run constructs a new generator
\* over the same output directory
NewGenerator ==
    /\ outcome # "none"
    /\ Len(history) < MaxCalls
    /\ \E d \in BOOLEAN : dry_run' = d
    /\ created_files' = <<>>
    /\ created_dirs' = <<>>
    /\ skipped_items' = <<>>
    /\ outcome' = "none"
    /\ UNCHANGED <<dirs, files, tree, history, text, hint, parsed>>

\* generator.generate(tree)
Generate ==
    /\ Len(history) < MaxCalls
    /\ \E r \in {generate(Self, tree)} :
          /\ dirs' = r.dirs
          /\ files' = r.files
          /\ created_files' = r.created_files
          /\ created_dirs' = r.created_dirs
          /\ skipped_items' = r.skipped_items
          /\ outcome' = IF r.err = NoErr THEN "returned" ELSE r.err
          /\ history' = Append(history,
                [dry_run |-> dry_run, before |-> Fs(Self), after |-> Fs(r),
                 created_files |-> r.created_files, created_dirs |-> r.created_dirs,
                 skipped_items |-> r.skipped_items,
                 outcome |-> IF r.err = NoErr THEN "returned" ELSE r.err,
                 log |-> r.log])
    /\ UNCHANGED <<tree, dry_run, text, hint, parsed>>

Next == Generate \/ NewGenerator

Spec == Init /\ [][Next]_vars

\* the same generator, over the trees with names the skip policy matches
SpecSkip == InitSkip /\ [][Next]_vars

\* the same generator, over the trees of one commented file
SpecComment == InitComment /\ [][Next]_vars


-----------------------------------------------------------------------------
(* Inputs of the parsers: texts, built from lines, and documents *)

\* the largest number of lines of a generated text
MaxLines == 3
\* lines of the tree-drawing notation
\* a directory with its trailing separator, depth 1
t_api == <<branch, dash, dash, " ", "a", "p", "i", "/">>
\* a name without separator or extension, depth 1
t_core == <<branch, dash, dash, " ", "c", "o", "r", "e">>
\* a file at depth 2
t_routes ==
    <<pipe, " ", " ", " ", corner, dash, dash, " ", "r", "o", "u", "t", "e",
      "s", ".", "p", "y">>
\* a file with a comment, depth 1
t_main ==
    <<corner, dash, dash, " ", "m", "a", "i", "n", ".", "p", "y", " ", " ",
      "#", " ", "E", "n", "t", "r", "y">>
\* a file at depth 3
t_deep ==
    <<pipe, " ", " ", " ", pipe, " ", " ", " ", corner, dash, dash, " ", "x",
      ".", "p", "y">>
\* a parenthesized annotation holding "ignored"
t_ignored ==
    <<branch, dash, dash, " ", "(", "i", "g", "n", "o", "r", "e", "d", " ",
      "f", "i", "l", "e", ")">>
\* an ellipsis placeholder
t_ellipsis == <<pipe, " ", " ", " ", ellipsis>>
\* a separator row: glyphs and nothing after them
t_bar == <<pipe>>
TreeLines == {t_api, t_core, t_routes, t_main, t_deep, t_ignored, t_ellipsis, t_bar}

\* lines of the indented notation
\* a directory, unindented
s_api == <<"a", "p", "i", "/">>
\* a file indented by two spaces
s_routes == <<" ", " ", "r", "o", "u", "t", "e", "s", ".", "p", "y">>
\* a directory with a comment, indented by four spaces
s_core ==
    <<" ", " ", " ", " ", "c", "o", "r", "e", " ", " ", "#", " ", "C", "o",
      "r", "e">>
\* Scenario B: a file with a comment
s_main ==
    <<"m", "a", "i", "n", ".", "p", "y", " ", " ", "#", " ", "E", "n", "t",
      "r", "y", " ", "p", "o", "i", "n", "t">>
\* a file indented by six spaces
s_x == <<" ", " ", " ", " ", " ", " ", "x", ".", "p", "y">>
\* a file indented by eight spaces
s_deep == <<" ", " ", " ", " ", " ", " ", " ", " ", "d", "e", "e", "p", ".", "p", "y">>
\* a blank line
s_blank == <<>>
SimpleLines == {s_api, s_routes, s_core, s_main, s_x, s_deep, s_blank}

\* Scenario A in the tree-drawing notation
ScenarioAText ==
    <<branch, dash, dash, " ", "a", "p", "i", "/", "\n", pipe, " ", " ", " ",
      corner, dash, dash, " ", "r", "o", "u", "t", "e", "s", ".", "p", "y",
      "\n", corner, dash, dash, " ", "m", "a", "i", "n", ".", "p", "y">>
\* the text of test_parse_tree_format
TreeTest ==
    <<"\n", branch, dash, dash, " ", "a", "p", "i", "/", "\n", pipe, " ", " ",
      " ", corner, dash, dash, " ", "r", "o", "u", "t", "e", "s", ".", "p",
      "y", "\n", branch, dash, dash, " ", "c", "o", "r", "e", "/", "\n",
      pipe, " ", " ", " ", corner, dash, dash, " ", "c", "l", "a", "s",
      "s", "i", "f", "i", "e", "r", ".", "p", "y", "\n", corner, dash,
      dash, " ", "m", "a", "i", "n", ".", "p", "y", "\n">>
\* the text of test_parse_simple_format: five lines indented by 0 or 2 spaces
SimpleTest ==
    <<"\n", "a", "p", "i", "/", "\n", " ", " ", "r", "o", "u", "t", "e", "s",
      ".", "p", "y", "\n", "c", "o", "r", "e", "/", "\n", " ", " ", "c",
      "l", "a", "s", "s", "i", "f", "i", "e", "r", ".", "p", "y", "\n",
      "m", "a", "i", "n", ".", "p", "y", "\n">>

\* the texts of n lines over a set of lines, joined by newlines
RECURSIVE LineLists(_, _)
LineLists(n, lines) ==
    IF n = 0 THEN {<<>>}
    ELSE {<<l>> \o rest : l \in lines, rest \in LineLists(n - 1, lines)}

TextsOver(lines) ==
    {JoinLines(ls, "\n") : ls \in UNION {LineLists(n, lines) : n \in 0..MaxLines}}

TreeTexts == TextsOver(TreeLines) \cup {ScenarioAText, TreeTest}
SimpleTexts == TextsOver(SimpleLines) \cup {SimpleTest}

\* first lines for the format selection: structured documents
\* a sequence
d_seq == <<"-", " ", "a", ".", "p", "y">>
\* an empty flow mapping
d_brace == <<"{", "}">>
\* an empty flow sequence
d_bracket == <<"[", "]">>
\* a serialized node
d_name == <<"n", "a", "m", "e", ":", " ", ".">>
\* a mapping with the key structure
d_structure == <<"s", "t", "r", "u", "c", "t", "u", "r", "e", ":">>
\* Scenario C: a mapping with another key
d_docs == <<"d", "o", "c", "s", ":", " ", "r", "e", "a", "d", "m", "e", ".", "m", "d">>

\* the first lines, the text before them and the text after them
DetectFirstLines == {d_seq, d_brace, d_bracket, d_name, d_structure, d_docs,
                     s_api, s_main, t_api, t_bar, <<dash, " ", "x">>}
DetectBefore == {<<>>, <<"\n", " ", " ">>}
DetectAfter == {<<>>, <<"\n">>, <<"\n">> \o s_routes, <<"\n", " ", " ">> \o t_routes}
DetectTexts == {b \o l \o a : b \in DetectBefore, l \in DetectFirstLines, a \in DetectAfter}

\* the values of format_type: the four the parser knows and others
FormatTypes == {"auto", "tree", "yaml", "simple", "invalid", "Tree", ""}

\* the calls of parse whose document, when one is loaded, is known
DetectInputs ==
    {in \in DetectTexts \X FormatTypes :
        (IF in[2] = "auto" THEN DetectFormat(Strip(in[1])) ELSE in[2]) = "yaml"
            => Strip(in[1]) \in DOMAIN YamlDocuments}

\* scalars and keys of the documents
readme_md == <<"r", "e", "a", "d", "m", "e", ".", "m", "d">>
docs == <<"d", "o", "c", "s">>
src == <<"s", "r", "c">>
Scalars == {YStr(readme_md), YInt(<<"4", "2">>), YNone}
Keys == {docs, src}

\* the documents of exactly k values (scalars and containers) without a key
\* "name": a scalar, a sequence of documents, or a mapping of distinct keys
RECURSIVE EntryLists(_)
RECURSIVE PairLists(_, _)
DocumentsOfSize(k) ==
    (IF k = 1 THEN Scalars ELSE {})
    \cup {YList(es) : es \in EntryLists(k - 1)}
    \cup {YDict(ps) : ps \in PairLists(k - 1, Keys)}
EntryLists(n) ==
    IF n = 0 THEN {<<>>}
    ELSE UNION {{<<e>> \o rest : e \in DocumentsOfSize(k), rest \in EntryLists(n - k)}
                : k \in 1..n}
PairLists(n, keys) ==
    IF n = 0 THEN {<<>>}
    ELSE UNION {{<< <<kk[2], v>> >> \o rest :
                    v \in DocumentsOfSize(kk[1]),
                    rest \in PairLists(n - kk[1], keys \ {kk[2]})}
                : kk \in (1..n) \X keys}

\* the document of test_yaml_nested_structure
YamlNested ==
    YDict(<< <<<<"p", "r", "o", "j", "e", "c", "t">>,
               YList(<< YDict(<< <<src, YList(<<YStr(main_py),
                                              YStr(<<"u", "t", "i", "l", "s", ".", "p", "y">>)>>)>> >>),
                        YStr(<<"R", "E", "A", "D", "M", "E", ".", "m", "d">>) >>)>> >>)

\* mappings and sequences of at most MaxNodes values, and the test's document
PlainDocuments == UNION {DocumentsOfSize(k) : k \in 1..MaxNodes} \cup {YamlNested}

\* serialized nodes: the exports of trees, and a node without "children"
SerializedDocuments ==
    {to_dict(t) : t \in Trees \cup CommentTrees}
    \cup {YDict(<< <<key_name, YStr(api)>> >>)}

Documents == PlainDocuments \cup SerializedDocuments

-----------------------------------------------------------------------------
(* The state machine of the parsers *)

\* a TreeParser, and the text and format_type its caller holds; nothing is
\* generated
InitParser ==
    /\ \E fs \in {FsNone} : dirs = fs.dirs /\ files = fs.files
    /\ dry_run = FALSE
    /\ created_files = <<>>
    /\ created_dirs = <<>>
    /\ skipped_items = <<>>
    /\ tree = NoTree
    /\ outcome = "none"
    /\ history = <<>>

\* the calls of parse the format selection is checked on
InitParse ==
    /\ InitParser
    /\ \E in \in DetectInputs : text = in[1] /\ hint = in[2]
    /\ parsed = YNone

\* the calls of the two line-oriented parsers
InitLines ==
    /\ InitParser
    /\ \/ text \in TreeTexts /\ hint = "tree"
       \/ text \in SimpleTexts /\ hint = "simple"
    /\ parsed = YNone

\* parse at line 337: yaml.safe_load has returned a document
InitYaml ==
    /\ InitParser
    /\ text = <<>>
    /\ hint = "yaml"
    /\ parsed \in Documents

\* tree = parser.parse(content, format_type)
Parse ==
    /\ outcome = "none"
    /\ \E r \in {parse(text, hint)} :
          /\ tree' = r.tree
          /\ parsed' = r.parsed
          /\ outcome' = IF r.err = NoErr THEN "returned" ELSE r.err
          /\ history' = Append(history,
                [text |-> text, hint |-> hint, ran |-> r.ran, parsed |-> r.parsed,
                 outcome |-> IF r.err = NoErr THEN "returned" ELSE r.err,
                 tree |-> r.tree, log |-> r.log])
    /\ UNCHANGED <<dirs, files, dry_run, created_files, created_dirs, skipped_items,
                   text, hint>>

\* return self._parse_yaml(parsed)
ParseYaml ==
    /\ outcome = "none"
    /\ \E r \in {ParseDocument(parsed)} :
          /\ tree' = r.tree
          /\ outcome' = IF r.err = NoErr THEN "returned" ELSE r.err
          /\ history' = Append(history,
                [text |-> text, hint |-> hint, ran |-> "yaml", parsed |-> parsed,
                 outcome |-> IF r.err = NoErr THEN "returned" ELSE r.err,
                 tree |-> r.tree, log |-> r.log])
    /\ UNCHANGED <<dirs, files, dry_run, created_files, created_dirs, skipped_items,
                   text, hint, parsed>>

\* parse over texts and format types
SpecParse == InitParse /\ [][Parse]_vars

\* parse_tree_format and parse_simple_format over texts built from lines
SpecLines == InitLines /\ [][Parse]_vars

\* _parse_yaml over documents
SpecYaml == InitYaml /\ [][ParseYaml]_vars

-----------------------------------------------------------------------------
(* Texts with a root line and with separator rows *)

\* the literal root line
t_dot == <<".">>
\* a separator row: a corner glyph with no name after it
t_corner == <<corner, dash, dash, " ">>
\* the lines of test_parse_tree_skips_empty_lines, a root line, a nested
\* entry and separator rows
RowLines == {t_dot, t_api, t_routes, t_main, t_bar, t_corner}

\* the calls of parse_tree_format on texts with root lines and separator rows
InitRows ==
    /\ InitParser
    /\ text \in TextsOver(RowLines)
    /\ hint = "tree"
    /\ parsed = YNone

\* parse_tree_format over those texts
SpecRows == InitRows /\ [][Parse]_vars

-----------------------------------------------------------------------------
(* Names for the extension heuristic *)

\* the largest length of a generated name
MaxName == 4
\* the names of test_has_extension and a dot-prefixed name with a later dot
file_py == <<"f", "i", "l", "e", ".", "p", "y">>
dot_git == <<".", "g", "i", "t">>
no_extension == <<"n", "o", "_", "e", "x", "t", "e", "n", "s", "i", "o", "n">>
eslintrc_json == <<".", "e", "s", "l", "i", "n", "t", "r", "c", ".", "j", "s", "o", "n">>

\* the names of up to n characters over a dot and two letters
RECURSIVE NamesUpTo(_)
NamesUpTo(n) ==
    IF n = 0 THEN {<<>>}
    ELSE LET shorter == NamesUpTo(n - 1)
         IN shorter \cup {s \o <<c>> : s \in shorter, c \in {".", "p", "y"}}

Filenames == NamesUpTo(MaxName) \cup {file_py, dot_git, no_extension, eslintrc_json}

\* parser._has_extension(filename)
HasExtension ==
    /\ outcome = "none"
    /\ outcome' = "returned"
    /\ history' = Append(history,
          [filename |-> text, has_extension |-> _has_extension(text)])
    /\ UNCHANGED <<dirs, files, tree, dry_run, created_files, created_dirs,
                   skipped_items, text, hint, parsed>>

\* the calls of _has_extension
InitName ==
    /\ InitParser
    /\ text \in Filenames
    /\ hint = "simple"
    /\ parsed = YNone

\* _has_extension over those names
SpecName == InitName /\ [][HasExtension]_vars

-----------------------------------------------------------------------------
(* The pipeline: a text is parsed and the tree it gives is generated *)

\* a file with an absolute name, in the indented and in the tree-drawing notation
s_abs == <<"/", "e", "t", "c", "/", "x", ".", "p", "y">>
t_abs == <<branch, dash, dash, " ">> \o s_abs

\* the texts of the pipeline, with the format each is parsed as
PipeInputs ==
    {<<txt, "simple">> : txt \in TextsOver({s_api, s_core, s_main, s_abs})}
        \cup {<<txt, "tree">> : txt \in TextsOver({t_api, t_routes, t_main, t_abs})}

\* generator = TreeGenerator(base_path, dry_run); generator.generate(tree),
\* once, on the tree the parser returned
GenerateParsed ==
    /\ outcome = "returned"
    /\ Len(history) = 1
    /\ Generate

\* a text to parse, and a generator over an output directory that is missing or empty
InitPipe ==
    /\ \E in \in PipeInputs : text = in[1] /\ hint = in[2]
    /\ \E fs \in {FsNone, FsEmpty} : dirs = fs.dirs /\ files = fs.files
    /\ dry_run \in BOOLEAN
    /\ created_files = <<>>
    /\ created_dirs = <<>>
    /\ skipped_items = <<>>
    /\ tree = NoTree
    /\ parsed = YNone
    /\ outcome = "none"
    /\ history = <<>>

\* the pipeline over those inputs
SpecPipe == InitPipe /\ [][Parse \/ GenerateParsed]_vars
-----------------------------------------------------------------------------
(* Properties of generate.  history holds one record per generate call; the *)
(* properties below read the calls made so far.                             *)

Calls == {history[i] : i \in 1..Len(history)}
Events(h) == {h.log[i] : i \in 1..Len(h.log)}
Returned(h) == h.outcome = "returned"
InSeq(x, s) == \E i \in 1..Len(s) : s[i] = x

\* every node below a child list, at any depth, with the path generate would give it
RECURSIVE NodesUnder(_, _)
NodesUnder(children, path) ==
    UNION {{<<children[i], Join(path, children[i].name)>>}
           \cup NodesUnder(children[i].children, Join(path, children[i].name))
           : i \in 1..Len(children)}

\* the nodes the traversal reaches: those whose ancestors are all directories
\* that the skip policy does not match
RECURSIVE ReachedUnder(_, _)
ReachedUnder(children, path) ==
    UNION {{<<children[i], Join(path, children[i].name)>>}
           \cup (IF children[i].is_directory /\ ~_should_skip(children[i].name)
                 THEN ReachedUnder(children[i].children, Join(path, children[i].name))
                 ELSE {})
           : i \in 1..Len(children)}

\* the output directory holds nothing (or does not exist yet)
EmptyBase(fs) == DOMAIN fs.files = {} /\ fs.dirs \subseteq {<<>>, base_path}

s_out_api == <<"/", "o", "u", "t", "/", "a", "p", "i">>
s_out_api_routes_py == <<"/", "o", "u", "t", "/", "a", "p", "i", "/", "r", "o", "u", "t", "e", "s", ".", "p", "y">>
s_out_api_init_py == <<"/", "o", "u", "t", "/", "a", "p", "i", "/", "_", "_", "i", "n", "i", "t", "_", "_", ".", "p", "y">>
s_out_main_py == <<"/", "o", "u", "t", "/", "m", "a", "i", "n", ".", "p", "y">>

\* Scenario A: root{directory api{file routes.py}, file main.py}
ScenarioA ==
    TreeNode(<<".">>, TRUE, None,
             <<TreeNode(api, TRUE, None, <<TreeNode(routes_py, FALSE, None, <<>>)>>),
               TreeNode(main_py, FALSE, None, <<>>)>>)

C1_Case(h) == tree = ScenarioA /\ ~h.dry_run /\ EmptyBase(h.before)

\* C1 as stated: materializing Scenario A into an empty base returns
\* created_dirs = [/out/api] and created_files = [/out/api/routes.py, /out/main.py]
C1_Original ==
    \A h \in Calls : C1_Case(h) =>
        /\ Returned(h)
        /\ h.created_dirs = <<s_out_api>>
        /\ h.created_files = <<s_out_api_routes_py, s_out_main_py>>

\* C1, amended: materializing Scenario A into an empty base returns
\* created_dirs = [/out/api] and created_files = [/out/api/routes.py,
\* /out/api/__init__.py, /out/main.py], in that order and nothing else: the
\* package marker of api is created and reported after routes.py
C1_ScenarioA ==
    \A h \in Calls : C1_Case(h) =>
        /\ Returned(h)
        /\ h.created_dirs = <<s_out_api>>
        /\ h.created_files = <<s_out_api_routes_py, s_out_api_init_py, s_out_main_py>>

C1_Witness == \E h \in Calls : C1_Case(h) /\ Returned(h) /\ h.before = FsNone

C2_Name(name) == name = pycache \/ EndsWith(name, <<".", "l", "o", "g">>)

\* C2 as stated: every node at any depth named __pycache__ or ending in .log is
\* reported in skipped_items and its path is in neither created list
C2_Original ==
    \A h \in Calls : Returned(h) =>
        \A np \in NodesUnder(tree.children, base_path) : C2_Name(np[1].name) =>
            /\ InSeq(np[1].name, h.skipped_items)
            /\ ~InSeq(Str(np[2]), h.created_dirs)
            /\ ~InSeq(Str(np[2]), h.created_files)

\* C2, amended: every node the traversal reaches (all its ancestors are
\* directories the skip policy does not match) that is named __pycache__ or
\* ends in .log is reported in skipped_items when generate returns, and no such
\* node is ever created or reported as created: no creation step runs for it
C2_SkipPolicy ==
    \A h \in Calls :
        /\ \A e \in Events(h) : ~C2_Name(e.node.name)
        /\ Returned(h) =>
             \A np \in ReachedUnder(tree.children, base_path) :
                 C2_Name(np[1].name) => InSeq(np[1].name, h.skipped_items)

C2_Witness ==
    \E h \in Calls :
        /\ Returned(h)
        /\ h.created_dirs = <<s_out_api>>
        /\ h.skipped_items = <<debug_log, pycache>>
        /\ \E np \in ReachedUnder(tree.children, base_path) :
               np[1].name = debug_log /\ Len(np[2]) = 3

\* C3: a dry-run generate leaves the filesystem unchanged: the call as a whole
\* and each of its steps has the same directories, files and contents after as
\* before, the base directory included
C3_DryRunFrame ==
    \A h \in Calls : h.dry_run =>
        /\ h.after = h.before
        /\ \A e \in Events(h) : e.after = e.before

C3_Witness ==
    \E h \in Calls :
        /\ h.dry_run
        /\ h.before = FsNone
        /\ h.after = FsNone
        /\ h.created_dirs # <<>>
        /\ \E e \in Events(h) : e.step = "_create_file_with_comment"

\* C4 as stated, in its weakest reading: a dry-run of a tree whose root has a
\* child reports something in created_dirs or created_files
C4_Original ==
    \A h \in Calls : (h.dry_run /\ tree.children # <<>>) =>
        (h.created_dirs # <<>> \/ h.created_files # <<>>)

\* C4, amended: a dry-run always returns, and it reports a non-empty
\* created_dirs when a child of the root is a directory the skip policy does not
\* match, and a non-empty created_files when a child of the root is such a
\* file; when every child of the root is skipped both lists are empty
C4_DryRunReport ==
    \A h \in Calls : h.dry_run =>
        /\ Returned(h)
        /\ (\E i \in 1..Len(tree.children) :
                tree.children[i].is_directory /\ ~_should_skip(tree.children[i].name))
           => h.created_dirs # <<>>
        /\ (\E i \in 1..Len(tree.children) :
                ~tree.children[i].is_directory /\ ~_should_skip(tree.children[i].name))
           => h.created_files # <<>>
        /\ (\A i \in 1..Len(tree.children) : _should_skip(tree.children[i].name))
           => (h.created_dirs = <<>> /\ h.created_files = <<>>)

C4_Witness ==
    \E h \in Calls :
        /\ h.dry_run
        /\ Len(tree.children) = 2
        /\ _should_skip(tree.children[1].name)
        /\ h.created_files # <<>>
        /\ h.created_dirs = <<>>
        /\ h.after = h.before

\* C5: a dry-run reports what the real run reports: a dry-run followed by a
\* real run of the same tree from the same filesystem returns the same
\* created_dirs, created_files and skipped_items
C5_DryRunShowsRealRun ==
    \A i \in 1..(Len(history) - 1) :
        (/\ history[i].dry_run
         /\ ~history[i + 1].dry_run
         /\ history[i + 1].before = history[i].before
         /\ Returned(history[i + 1]))
        => /\ history[i + 1].created_dirs = history[i].created_dirs
           /\ history[i + 1].created_files = history[i].created_files
           /\ history[i + 1].skipped_items = history[i].skipped_items


\* the header line the claim gives for a file name and a comment text
C6_Line(name, c) ==
    IF EndsWith(name, <<".", "c", "s", "s">>)
    THEN <<"/", "*", " ">> \o c \o <<" ", "*", "/", "\n">>
    ELSE IF EndsWith(name, <<".", "h", "t", "m", "l">>) \/ EndsWith(name, <<".", "x", "m", "l">>)
    THEN <<"<", "!", "-", "-", " ">> \o c \o <<" ", "-", "-", ">", "\n">>
    ELSE IF EndsWith(name, <<".", "j", "s">>) THEN <<"/", "/", " ">> \o c \o <<"\n">>
    ELSE IF EndsWith(name, <<".", "s", "q", "l">>) THEN <<"-", "-", " ">> \o c \o <<"\n">>
    ELSE <<"#", " ">> \o c \o <<"\n">>

\* the reached file nodes that the skip policy does not match
C6_FileNodes ==
    {np \in ReachedUnder(tree.children, base_path) :
        ~np[1].is_directory /\ ~_should_skip(np[1].name)}

\* call h wrote the node: one of its steps created the node's file, which then
\* held exactly the header line of its suffix
C6_Written(h, np) ==
    \E e \in Events(h) :
        /\ e.node = np[1]
        /\ e.path = np[2]
        /\ np[2] \in DOMAIN e.after.files
        /\ e.after.files[np[2]] = C6_Line(np[1].name, np[1].comment)

\* C6 as stated: every non-skipped file node with a comment c holds exactly the
\* header line of its suffix after a non-dry-run generate
C6_Original ==
    \A h \in Calls : (~h.dry_run /\ Returned(h)) =>
        \A np \in C6_FileNodes : np[1].comment # None => C6_Written(h, np)

\* C6, amended: every non-skipped file node with a non-empty comment c holds,
\* once materialized in non-dry-run, exactly one line: '/* c */\n' for .css,
\* '<!-- c -->\n' for .html and .xml, the table's prefix then ' c\n' for the
\* other known suffixes, '# c\n' for a suffix not in the table; a node whose
\* comment is the empty text is created like a comment-less file
C6_CommentHeader ==
    \A h \in Calls :
        /\ (~h.dry_run /\ Returned(h)) =>
               \A np \in C6_FileNodes :
                   (np[1].comment # None /\ np[1].comment # <<>>) => C6_Written(h, np)
        /\ \A e \in Events(h) :
               (e.node.comment = <<>> /\ ~e.node.is_directory) => e.step = "_create_file"

C6_Witness ==
    \E h \in Calls :
        /\ ~h.dry_run
        /\ Returned(h)
        /\ tree.children[1].name = styles_css
        /\ Join(base_path, styles_css) \in DOMAIN h.after.files
        /\ h.after.files[Join(base_path, styles_css)]
               = <<"/", "*", " ", "E", "n", "t", "r", "y", " ", "*", "/", "\n">>


\* no node of the tree carries a comment
CommentLess == \A np \in NodesUnder(tree.children, base_path) : np[1].comment = None

\* calls i and i+1 are two non-dry-run calls in succession that both returned
Rerun(i) ==
    /\ ~history[i].dry_run
    /\ ~history[i + 1].dry_run
    /\ Returned(history[i])
    /\ Returned(history[i + 1])
    /\ history[i + 1].before = history[i].after

\* the created_files entries of a call that its package-marker steps did not
\* append, in order
RECURSIVE NotByMarker(_)
NotByMarker(log) ==
    IF log = <<>> THEN <<>>
    ELSE (IF Head(log).step = "package_marker" THEN <<>> ELSE Head(log).created_files)
         \o NotByMarker(Tail(log))

\* C7 as stated: the second of two successive calls with the same comment-less
\* tree returns the created_dirs and created_files of the first
C7_Original ==
    \A i \in 1..(Len(history) - 1) : (Rerun(i) /\ CommentLess) =>
        /\ history[i + 1].created_dirs = history[i].created_dirs
        /\ history[i + 1].created_files = history[i].created_files

\* C7, amended: the second call returns a created_dirs list identical to the
\* first call's, and a created_files list identical to the first call's apart
\* from the __init__.py entries appended by the package-marker step (a marker
\* the first call created exists at the second call and is not reported again)
C7_RerunReport ==
    \A i \in 1..(Len(history) - 1) : (Rerun(i) /\ CommentLess) =>
        /\ history[i + 1].created_dirs = history[i].created_dirs
        /\ NotByMarker(history[i + 1].log) = NotByMarker(history[i].log)
        /\ \A k \in 1..2 : \A e \in Events(history[i + k - 1]) :
               e.step = "package_marker" =>
                   e.created_files \in {<<>>, <<Str(Append(e.path, init_py))>>}

C7_Witness ==
    /\ Len(history) = 2
    /\ Rerun(1)
    /\ CommentLess
    /\ history[1].created_files = <<s_out_api_routes_py, s_out_api_init_py, s_out_main_py>>
    /\ history[2].created_files = <<s_out_api_routes_py, s_out_main_py>>

\* C8: re-running generate with the same tree on the same output directory
\* raises no error and leaves the filesystem (directories, files, contents) as
\* the first run left it
C8_RerunKeepsFilesystem ==
    \A i \in 1..(Len(history) - 1) :
        (~history[i].dry_run /\ ~history[i + 1].dry_run /\ Returned(history[i])) =>
            /\ Returned(history[i + 1])
            /\ history[i + 1].after = history[i].after

\* C9: a comment-less file node whose path is already a file keeps that
\* file's content, and its path is reported in created_files
C9_TouchKeepsContent ==
    \A h \in Calls : ~h.dry_run =>
        \A e \in Events(h) :
            (e.step = "_create_file" /\ e.path \in DOMAIN e.before.files) =>
                /\ e.err = NoErr
                /\ e.after = e.before
                /\ e.created_files = <<Str(e.path)>>
                /\ Returned(h) => InSeq(Str(e.path), h.created_files)

C9_Witness ==
    \E h \in Calls : \E e \in Events(h) :
        /\ ~h.dry_run
        /\ Returned(h)
        /\ e.step = "_create_file"
        /\ e.path = Join(base_path, main_py)
        /\ e.path \in DOMAIN e.before.files
        /\ e.before.files[e.path] = old
        /\ e.after.files[e.path] = old
        /\ h.created_files = <<s_out_main_py>>

\* the directory of a package-marker step holds a file with suffix .py / holds
\* an __init__.py, on the filesystem the step starts from
C10_HasPy(e) ==
    \E f \in DOMAIN e.before.files :
        /\ Len(f) = Len(e.path) + 1
        /\ SubSeq(f, 1, Len(e.path)) = e.path
        /\ Len(f[Len(f)]) > 3
        /\ EndsWith(f[Len(f)], <<".", "p", "y">>)
C10_HasInit(e) ==
    Append(e.path, init_py) \in e.before.dirs \cup DOMAIN e.before.files

\* C10: in a non-dry-run, the step after a directory's children creates an
\* empty __init__.py there and appends its path to created_files if and only
\* if the directory then holds a file with suffix .py and no __init__.py;
\* otherwise nothing changes and nothing is reported, so an existing
\* __init__.py keeps its content
C10_PackageMarker ==
    \A h \in Calls : ~h.dry_run =>
        \A e \in Events(h) : e.step = "package_marker" =>
            /\ e.err = NoErr
            /\ IF C10_HasPy(e) /\ ~C10_HasInit(e)
               THEN /\ e.after.dirs = e.before.dirs
                    /\ DOMAIN e.after.files = DOMAIN e.before.files \cup {Append(e.path, init_py)}
                    /\ \A f \in DOMAIN e.before.files : e.after.files[f] = e.before.files[f]
                    /\ e.after.files[Append(e.path, init_py)] = <<>>
                    /\ e.created_files = <<Str(Append(e.path, init_py))>>
               ELSE /\ e.after = e.before
                    /\ e.created_files = <<>>

C10_Witness ==
    /\ Len(history) = 2
    /\ \E e \in Events(history[1]) :
           /\ e.step = "package_marker"
           /\ e.created_files = <<s_out_api_init_py>>
           /\ e.after.files[Join(out_api, init_py)] = <<>>
    /\ \E e \in Events(history[2]) :
           /\ e.step = "package_marker"
           /\ C10_HasPy(e)
           /\ C10_HasInit(e)
           /\ e.created_files = <<>>
    /\ ~history[1].dry_run
    /\ ~history[2].dry_run


\* the report entries the steps of one call appended, in order
RECURSIVE C11_Files(_)
C11_Files(log) ==
    IF log = <<>> THEN <<>> ELSE Head(log).created_files \o C11_Files(Tail(log))

RECURSIVE C11_Dirs(_)
C11_Dirs(log) ==
    IF log = <<>> THEN <<>> ELSE Head(log).created_dirs \o C11_Dirs(Tail(log))

-----------------------------------------------------------------------------
(* Properties of the parsers.  history holds the record of the parse call   *)
(* made: its arguments, the parser that ran, the tree returned and the      *)
(* node-producing lines.                                                    *)

KnownFormats == {"auto", "tree", "yaml", "simple"}

\* C12: parse with a format_type that is none of 'auto', 'tree', 'yaml',
\* 'simple' raises ValueError whatever the text is: no parser runs, no line
\* produces a node and no tree is returned
C12_UnsupportedFormat ==
    \A h \in Calls : h.hint \notin KnownFormats =>
        /\ h.outcome = "ValueError"
        /\ h.ran = "none"
        /\ h.log = <<>>
        /\ h.tree = NoTree
        /\ tree = NoTree

\* an unknown format_type over a text in the tree-drawing notation
C12_Witness ==
    \E h \in Calls :
        /\ h.hint = "invalid"
        /\ h.text = t_api \o <<"\n", " ", " ">> \o t_routes
        /\ outcome = "ValueError"

\* the format the detector contract gives a text under 'auto': the glyphs
\* first, then a sequence marker, a "key:" token of any key or an opening
\* brace or bracket, else the indented notation
C13_Detector(stripped) ==
    LET lines == Split(stripped, "\n")
    IN IF \E i \in 1..Len(lines) :
             \E g \in {branch, corner, pipe} : StartsWith(Strip(lines[i]), <<g>>)
       THEN "tree"
       ELSE IF \/ \E p \in {<<"-">>, <<"{">>, <<"[">>} : StartsWith(stripped, p)
               \/ \E k \in 2..Len(stripped) :
                     /\ stripped[k] = ":"
                     /\ \A j \in 1..(k - 1) : stripped[j] \notin Whitespace \cup {":", "#"}
       THEN "yaml"
       ELSE "simple"

\* C13: the parser that parse runs follows the detector contract: a hint other
\* than 'auto' is used unchanged; under 'auto' the tree-drawing parser runs if
\* a stripped line begins with a glyph, else the structured-data parser if the
\* trimmed text begins with '-', a "key:" token of any key, '{' or '[', else
\* the indented parser
C13_FormatSelection ==
    \A h \in Calls :
        /\ h.hint \in {"tree", "yaml", "simple"} => h.ran = h.hint
        /\ h.hint = "auto" => h.ran = C13_Detector(Strip(h.text))

\* the calls that ran the tree-drawing parser, and the indented parser
TreeCalls == {h \in Calls : h.ran = "tree"}
SimpleCalls == {h \in Calls : h.ran = "simple"}

\* the name token of a line of the tree-drawing notation: the text after the
\* glyph run, without its comment
C14_Token(line) == _clean_tree_line(line).clean_line

\* the next content line after line i lies strictly deeper than depth
C14_NextDeeper(lines, i, depth) ==
    LET j == NextContentLine(lines, i)
    IN j # 0 /\ _calculate_tree_indent_level(lines[j]) > depth

\* C14: in the tree-drawing notation a node is a directory if its name token
\* ends with '/' or '\', or else if the next content line lies strictly
\* deeper, and a file otherwise; so a line such as "|-- api/" gives a
\* directory whatever follows it
C14_TreeKind ==
    \A h \in TreeCalls : \A i \in 1..Len(h.log) :
        LET e == h.log[i]
        IN e.is_directory =
              (\/ EndsWith(C14_Token(e.line), <<"/">>)
               \/ EndsWith(C14_Token(e.line), <<"\\">>)
               \/ C14_NextDeeper(TreeFormatLines(h.text), e.line_no, e.indent_level))

\* the line of the text that a node-producing line of the tree-drawing parser
\* was read from: the pre-pass and the root line's removal keep the order
C15_Source(h, e) ==
    LET source == SplitLines(Strip(h.text))
    IN source[e.line_no + (Len(source) - Len(TreeFormatLines(h.text)))]

\* a letter in lower case, for the letters of "ignored"
C15_Lower(c) ==
    IF c = "I" THEN "i" ELSE IF c = "G" THEN "g" ELSE IF c = "N" THEN "n"
    ELSE IF c = "O" THEN "o" ELSE IF c = "R" THEN "r" ELSE IF c = "E" THEN "e"
    ELSE IF c = "D" THEN "d" ELSE c

\* a cleaned content that stands for no entry: empty, an ellipsis, a
\* parenthesized annotation, or holding "ignored" in any letter case
C15_Placeholder(clean_line) ==
    \/ clean_line = <<>>
    \/ clean_line \in {<<ellipsis>>, <<".", ".", ".">>}
    \/ Len(clean_line) >= 2 /\ clean_line[1] = "(" /\ clean_line[Len(clean_line)] = ")"
    \/ Find([i \in 1..Len(clean_line) |-> C15_Lower(clean_line[i])],
            <<"i", "g", "n", "o", "r", "e", "d">>) # 0

\* C15: in the tree-drawing notation no node comes from a line whose cleaned
\* content (the text after the glyph run, without its '#' comment) is empty,
\* an ellipsis placeholder, a parenthesized annotation or holds "ignored"
C15_PlaceholdersDropped ==
    \A h \in TreeCalls : \A i \in 1..Len(h.log) :
        ~C15_Placeholder(_clean_tree_line(C15_Source(h, h.log[i])).clean_line)

\* the number of leading spaces of a line
C16_Spaces(line) ==
    LET rest == {i \in 1..Len(line) : line[i] # " "}
    IN IF rest = {} THEN Len(line) ELSE Min(rest) - 1

\* C16: in the indented notation the depth of every node-producing line is
\* floor(leading spaces / 4) and its parent is resolved from that depth: the
\* parent is the root or a line of smaller depth, and a line indented by
\* fewer than four spaces is a child of the root; the five lines of
\* test_parse_simple_format, indented by 0 or 2 spaces, give five children
C16_IndentUnit ==
    \A h \in SimpleCalls :
        /\ \A i \in 1..Len(h.log) :
              LET e == h.log[i]
                  n == C16_Spaces(e.line)
              IN /\ 4 * e.indent_level <= n
                 /\ n < 4 * (e.indent_level + 1)
                 /\ n < 4 => e.parent = 0
                 /\ e.parent # 0 => h.log[e.parent].indent_level < e.indent_level
        /\ h.text = SimpleTest => Len(h.tree.children) = 5

\* test_parse_simple_format: lines indented by two spaces, all below the root
C16_Witness ==
    \E h \in SimpleCalls :
        /\ h.text = SimpleTest
        /\ h.outcome = "returned"
        /\ Len(tree.children) = 5
        /\ \E i \in 1..Len(h.log) : C16_Spaces(h.log[i].line) = 2

\* the line of the text that a node-producing line of the indented parser was
\* read from
C17_Source(h, e) == RawLines(h.text)[e.line_no]

\* C17: in the indented notation the comment of every node, file or
\* directory, is the trimmed text after the first '#' of its source line, and
\* absent when the line holds no '#'
C17_Comments ==
    \A h \in SimpleCalls : \A i \in 1..Len(h.log) :
        LET source == C17_Source(h, h.log[i])
        IN h.log[i].comment =
              IF Contains(source, "#") THEN Strip(AfterHash(source)) ELSE None

\* C20: in both line-oriented parsers the parent of every node-producing line
\* is the most recent earlier node-producing line of strictly smaller depth,
\* or the root when there is none; so consecutive lines of equal depth share
\* their parent; after each push the stack's depths increase strictly from the
\* bottom, the new node is on top and the root entry, of depth -1, is at the
\* bottom
C20_ParentStack ==
    \A h \in TreeCalls \cup SimpleCalls : \A i \in 1..Len(h.log) :
        LET e == h.log[i]
            smaller == {j \in 1..(i - 1) : h.log[j].indent_level < e.indent_level}
        IN /\ e.parent = IF smaller = {} THEN 0 ELSE Max(smaller)
           /\ i > 1 /\ h.log[i - 1].indent_level = e.indent_level
                 => e.parent = h.log[i - 1].parent
           /\ e.stack[1] = <<0, -1>>
           /\ e.stack[Len(e.stack)] = <<i, e.indent_level>>
           /\ \A k \in 1..(Len(e.stack) - 1) : e.stack[k][2] < e.stack[k + 1][2]

\* two lines of equal depth below a directory, in the tree-drawing notation
C20_Witness ==
    \E h \in TreeCalls :
        /\ Len(h.log) = 3
        /\ h.log[2].parent = 1
        /\ h.log[3].parent = 1
        /\ h.log[3].indent_level = h.log[2].indent_level
        /\ Len(tree.children) = 1
        /\ Len(tree.children[1].children) = 2

\* the tree the rules of the structured-data notation give a document without
\* a key "name", under a name: a mapping gives a directory with one child per
\* key; a sequence gives a directory whose scalar entries are files and whose
\* mapping entries are flattened; a scalar gives the directory with one file
\* named by the scalar.  (An entry of a sequence that is itself a sequence is
\* outside the rules; it is taken as the code takes it.)
RECURSIVE C18_Rules(_, _)
C18_Rules(document, name) ==
    [name |-> name, is_directory |-> TRUE, comment |-> None,
     children |->
        IF document.t = "dict"
        THEN [i \in 1..Len(document.items) |->
                 C18_Rules(document.items[i][2], document.items[i][1])]
        ELSE IF document.t = "list"
        THEN Concat([i \in 1..Len(document.items) |->
                 IF document.items[i].t = "dict"
                 THEN [j \in 1..Len(document.items[i].items) |->
                          C18_Rules(document.items[i].items[j][2],
                                    document.items[i].items[j][1])]
                 ELSE << [name |-> PyStr(document.items[i]), is_directory |-> FALSE,
                          comment |-> None, children |-> <<>>] >>])
        ELSE << [name |-> PyStr(document), is_directory |-> FALSE,
                 comment |-> None, children |-> <<>>] >>]

\* C18: for every document of mappings, sequences and scalars without a key
\* "name" the structured-data parser returns the root "." built by the rules:
\* keys become directories, scalar entries of a sequence files, mapping
\* entries of a sequence are flattened, and a scalar under a key gives the
\* key's directory with exactly one file named by the scalar
C18_StructuredRules ==
    \A h \in Calls : h.parsed \in PlainDocuments =>
        /\ h.outcome = "returned"
        /\ h.tree = C18_Rules(h.parsed, <<".">>)

\* a tree with every node made a directory without comment
RECURSIVE C19_Directories(_)
C19_Directories(t) ==
    [name |-> t.name, is_directory |-> TRUE, comment |-> None,
     children |-> [i \in 1..Len(t.children) |-> C19_Directories(t.children[i])]]

\* C19: importing a serialized node gives a directory of that name whose
\* children are the imports of the entries of "children", in order; every
\* imported node is a directory: a tree exported with to_dict and imported
\* again keeps its names and its shape, and its files come back as
\* directories; a serialized node without "children" has no children
C19_SerializedImport ==
    \A h \in Calls :
        /\ \A t \in Trees \cup CommentTrees : h.parsed = to_dict(t) =>
              /\ h.outcome = "returned"
              /\ h.tree = C19_Directories(t)
        /\ h.parsed = YDict(<< <<key_name, YStr(api)>> >>) =>
              h.tree = [name |-> api, is_directory |-> TRUE, comment |-> None,
                        children |-> <<>>]

\* Scenario A exported and imported again: main.py comes back as a directory
C19_Witness ==
    \E h \in Calls :
        /\ h.parsed = to_dict(ScenarioA)
        /\ h.outcome = "returned"
        /\ Len(tree.children) = 2
        /\ tree.children[2].name = main_py
        /\ tree.children[2].is_directory
        /\ tree.children[1].children[1].name = routes_py

-----------------------------------------------------------------------------
(* Properties of the parsed tree, of the extension heuristic, of failures   *)
(* of generate and of the paths a parsed tree makes generate touch.         *)

\* the nodes below the root of a returned tree, at any depth
C21_Nodes(h) == {n[1] : n \in NodesUnder(h.tree.children, base_path)}

\* C21: no parser produces a file-kind node that has children: in every tree
\* returned by parse_tree_format, parse_simple_format or the structured-data
\* parser, each node with is_directory = False has an empty children list
C21_FileNodesAreLeaves ==
    \A h \in Calls : Returned(h) =>
        \A n \in C21_Nodes(h) : ~n.is_directory => n.children = <<>>

\* the calls of the tree-drawing parser whose text is a root line followed by
\* at least one entry, with the text below the root line
C22_Rest(h) == SubSeq(h.text, 3, Len(h.text))
C22_Entry(line) == line \in {t_api, t_routes, t_main}
C22_RootLineCalls ==
    {h \in TreeCalls :
        /\ Len(h.text) > 2
        /\ h.text[1] = "." /\ h.text[2] = "\n"
        /\ LET rest == Split(C22_Rest(h), "\n")
           IN \A i \in 1..Len(rest) : C22_Entry(rest[i])}

\* C22: in the tree-drawing notation a literal root line (a lone '.') at the
\* start of the input is stripped: parse_tree_format on a text whose first
\* line is '.' followed by entries returns the same tree as on the text
\* without that line, and no node named '.' appears below the root
C22_RootLineStripped ==
    \A h \in C22_RootLineCalls :
        /\ Returned(h)
        /\ h.tree = parse_tree_format(C22_Rest(h)).tree
        /\ \A n \in C21_Nodes(h) : n.name # <<".">>

\* a separator row: glyphs and whitespace, with no name after them
C23_Separator(line) ==
    /\ \E i \in 1..Len(line) : line[i] \in {branch, corner, pipe}
    /\ \A i \in 1..Len(line) : line[i] \in TreeSymbolClass
\* the text of a call without its separator rows
C23_Kept(line) == ~C23_Separator(line)
C23_Without(h) == JoinLines(SelectSeq(Split(h.text, "\n"), C23_Kept), "\n")
\* the calls of the tree-drawing parser on entries and separator rows
C23_RowCalls ==
    {h \in TreeCalls :
        LET lines == Split(h.text, "\n")
        IN /\ \E i \in 1..Len(lines) : C23_Separator(lines[i])
           /\ \A i \in 1..Len(lines) : C23_Separator(lines[i]) \/ C22_Entry(lines[i])}

\* C23: in the tree-drawing notation a separator row (a line of glyphs and
\* whitespace with no name after them, such as a lone pipe or a corner with
\* nothing after it) is not a content line: it produces no node and does not
\* change the parent or kind of the other lines, so the tree is the one parsed
\* from the text without the separator rows
C23_SeparatorRowsSkipped ==
    \A h \in C23_RowCalls :
        /\ Returned(h)
        /\ h.tree = parse_tree_format(C23_Without(h)).tree

\* the name holds a '.' at a position other than the first
C24_LaterDot(name) == \E i \in 2..Len(name) : name[i] = "."
\* the name begins with '.' and holds no other '.'
C24_DotFile(name) == Len(name) > 0 /\ name[1] = "." /\ ~C24_LaterDot(name)

\* C24: _has_extension(name) is true exactly when the name holds a '.' at a
\* position other than the first, or begins with '.' and holds no other '.',
\* and false otherwise: 'file.py', '.git' and '.eslintrc.json' are files,
\* 'no_extension' is not
C24_ExtensionHeuristic ==
    \A h \in Calls :
        h.has_extension <=> (C24_LaterDot(h.filename) \/ C24_DotFile(h.filename))

\* the calls that really write, and the filesystem containment "nothing that
\* was there is gone"
C25_RealCalls == {h \in Calls : "dry_run" \in DOMAIN h /\ ~h.dry_run}
C25_Keeps(earlier, later) ==
    /\ earlier.dirs \subseteq later.dirs
    /\ DOMAIN earlier.files \subseteq DOMAIN later.files

\* C25: if a filesystem operation fails during a non-dry-run generate (here a
\* directory node whose path exists as a regular file, and every step that
\* raises), the error leaves generate uncaught, no later node is processed,
\* and every directory and file created before the failure stays on disk
C25_FailureLeavesPartialOutput ==
    \A h \in C25_RealCalls :
        /\ \A k \in 1..Len(h.log) :
              LET e == h.log[k]
              IN /\ (e.step = "_create_directory" /\ e.path \in DOMAIN e.before.files)
                        => e.err = "FileExistsError"
                 /\ e.err # NoErr =>
                        /\ h.outcome = e.err
                        /\ k = Len(h.log)
                        /\ h.after = e.after
                 /\ C25_Keeps(e.before, e.after)
                 /\ C25_Keeps(h.before, e.before)
                 /\ C25_Keeps(e.after, h.after)
        /\ Returned(h) => \A k \in 1..Len(h.log) : h.log[k].err = NoErr

\* a directory node meets a regular file after another node was created: the
\* call ends with FileExistsError, the node created first is on disk and the
\* node after the failing one was not processed
C25_Witness ==
    \E h \in C25_RealCalls :
        /\ h.outcome = "FileExistsError"
        /\ outcome = "FileExistsError"
        /\ Len(tree.children) = 3
        /\ Len(h.log) = 2
        /\ h.log[2].step = "_create_directory"
        /\ h.log[2].path \in DOMAIN h.before.files
        /\ h.log[1].path \in DOMAIN h.after.files \ DOMAIN h.before.files

\* the generate calls of the pipeline
C26_GenerateCalls == {h \in Calls : "dry_run" \in DOMAIN h}
\* a path inside the base directory: the base or below it, without '..'
C26_Inside(path) ==
    /\ Len(path) >= Len(base_path)
    /\ SubSeq(path, 1, Len(base_path)) = base_path
    /\ \A i \in 1..Len(path) : path[i] # <<".", ".">>
\* a reported path lies below the base directory
C26_ReportedInside(s) == StartsWith(s, Str(base_path) \o <<"/">>)

\* C26: generate is confined to the output location: for every tree a parser
\* produces from a text, every path generate creates, writes or reports lies
\* inside the base directory
C26_Confined ==
    \A h \in C26_GenerateCalls :
        /\ \A p \in h.after.dirs \ h.before.dirs : C26_Inside(p)
        /\ \A p \in DOMAIN h.after.files :
              (p \notin DOMAIN h.before.files \/ h.after.files[p] # h.before.files[p])
                  => C26_Inside(p)
        /\ \A k \in 1..Len(h.log) : C26_Inside(h.log[k].path)
        /\ \A k \in 1..Len(h.created_files) : C26_ReportedInside(h.created_files[k])
        /\ \A k \in 1..Len(h.created_dirs) : C26_ReportedInside(h.created_dirs[k])
====
